---- MODULE Spec2Model ----
(***************************************************************************)
(* A model of src/bot.js: the Telegram command dispatcher, the report      *)
(* builder (generateStatusMessage) and the provider pipeline behind it     *)
(* (getLiveUsage, getYesterdayUsage, getMonthlyUsage, getTariffInfo).      *)
(*                                                                         *)
(* One handler invocation is one suspendable task.  Node runs a task       *)
(* without interruption from one await of an outbound request to the       *)
(* next, so one action of the model is the code between two such awaits:   *)
(* it takes the response of the outstanding request, runs the code up to   *)
(* the next request (or to the transport call that ends the handler), and  *)
(* issues that request.                                                    *)
(*                                                                         *)
(* JavaScript values are records tagged by k.  A JavaScript number is an   *)
(* exact decimal n / 10^dp (binary floating-point rounding error is not    *)
(* modelled); strings produced by toFixed keep their digits.  String       *)
(* literals are ASCII: the emoji prefixes of the source's texts are left   *)
(* out.                                                                    *)
(***************************************************************************)
EXTENDS Integers, Sequences, FiniteSets, TLC

\* Bounds of the model.
MaxHandlers == 2
MaxReadings == 2
MaxAgreements == 2
MaxDate == 2

--------------------------------------------------------------------------
\* JavaScript values

Null == [k |-> "null"]

Undefined == [k |-> "undefined"]

NaN == [k |-> "NaN"]

RECURSIVE Norm(_)
\* The decimal n / 10^dp without trailing zeros, so that equal numbers are
\* equal records.
Norm(x) ==
    IF x.dp > 0 /\ x.n % 10 = 0
    THEN Norm([k |-> "number", n |-> x.n \div 10, dp |-> x.dp - 1])
    ELSE x

Dec(n, dp) == Norm([k |-> "number", n |-> n, dp |-> dp])

Arr(items) == [k |-> "array", items |-> items]

RECURSIVE Pow10(_)
Pow10(e) == IF e = 0 THEN 1 ELSE 10 * Pow10(e - 1)

\* x + y on numbers
Add(x, y) ==
    LET dp == IF x.dp > y.dp THEN x.dp ELSE y.dp
    IN  Dec(x.n * Pow10(dp - x.dp) + y.n * Pow10(dp - y.dp), dp)

\* x * y on numbers
Mul(x, y) == Dec(x.n * y.n, x.dp + y.dp)

\* x / 100 on numbers
Div100(x) == Dec(x.n, x.dp + 2)

\* Number.prototype.toFixed(d) of a non-negative number or NaN: the digits of
\* the nearest decimal with d places, the larger one on a tie.
ToFixed(x, d) ==
    IF x.k = "NaN" THEN [k |-> "string", text |-> "NaN"]
    ELSE IF x.dp <= d
         THEN [k |-> "string", n |-> x.n * Pow10(d - x.dp), dp |-> d]
         ELSE LET unit == Pow10(x.dp - d)
              IN  [k |-> "string", n |-> (x.n + unit \div 2) \div unit, dp |-> d]

\* parseFloat of a string produced by toFixed
ParseFloat(s) ==
    IF "text" \in DOMAIN s THEN NaN ELSE Dec(s.n, s.dp)

\* Number(v)
ToNumber(v) ==
    CASE v.k = "number" -> v
      [] v.k = "string" -> ParseFloat(v)
      [] v.k = "null" -> Dec(0, 0)
      [] OTHER -> NaN

\* !v for the values a response field can hold
Falsy(v) == v \in {Null, Undefined}

\* A completion of a function call: a returned value or a thrown error.
Return(v) == [threw |-> FALSE, value |-> v]

Throw(message) == [threw |-> TRUE, message |-> message]

--------------------------------------------------------------------------
\* Texts and configuration

ErrorText == [body |-> "Error fetching data. Please try again later."]

RefreshKeyboard ==
    [inline_keyboard |-> << << [text |-> "Refresh", callback_data |-> "refresh"] >> >>]

ConfigMpan == "mpan-1"

\* formatUsageData(usage, cost)
formatUsageData(usage, cost) ==
    [usage |-> ToFixed(usage, 2), cost |-> ToFixed(cost, 2)]

\* The text generateStatusMessage returns when nothing threw (the trailing
\* "Last Updated" line, the clock's reading, is left out).
StatusText(live, yday, mon, trf) ==
    [body |-> "Octopus Energy Status",
     current |-> ToFixed(live, 0),
     yesterday |-> formatUsageData(yday.usage, yday.cost),
     monthly |-> formatUsageData(mon.usage, mon.cost),
     name |-> trf.name,
     unit_rate |-> trf.unit_rate,
     standing_charge |-> trf.standing_charge]

--------------------------------------------------------------------------
\* The provider's responses and what the code computes from each

\* obj[name], undefined when the object has no such field
Field(obj, name) == IF name \in DOMAIN obj THEN obj[name] ELSE Undefined

\* getKrakenToken on the response of the token mutation
getKrakenToken(r) ==
    IF ~r.ok THEN Throw("Network Error")
    ELSE IF Falsy(r.data) THEN Throw("TypeError: data is null")
    ELSE Return(r.data.obtainKrakenToken.token)

\* getMeterGuid on the response of the device query
getMeterGuid(r) ==
    IF ~r.ok THEN Throw("Network Error")
    ELSE LET agreements == r.electricityAgreements
         IN  IF Falsy(agreements) \/ Len(agreements.items) = 0
             THEN Throw("No active electricity agreements found")
             ELSE LET meters == agreements.items[1].meterPoint.meters
                  IN  IF Falsy(meters) \/ Len(meters.items) = 0
                      THEN Throw("No active meters found")
                      ELSE LET smartDevices == meters.items[1].smartDevices
                           IN  IF Falsy(smartDevices) \/ Len(smartDevices.items) = 0
                               THEN Throw("No smart devices found")
                               ELSE Return(smartDevices.items[1].deviceId)

\* The rest of getLiveUsage's try block, on the response of the telemetry query
readTelemetry(r) ==
    IF ~r.ok THEN Throw("Network Error")
    ELSE LET list == r.smartMeterTelemetry
         IN  IF Falsy(list) \/ Len(list.items) = 0
             THEN Throw("No telemetry data available")
             ELSE LET telemetry == list.items[1]
                  IN  IF Field(telemetry, "demand") = Null
                      THEN Return(Dec(0, 0))
                      ELSE Return(ToNumber(Field(telemetry, "demand")))

\* getLiveUsage without its catch block
getLiveUsageNoCatch(c) == c

\* getLiveUsage's catch block: whatever was thrown inside becomes 0.
getLiveUsageCatch(c) == IF c.threw THEN Return(Dec(0, 0)) ELSE c

\* new Date(v).getTime() for a valid_to: null is the epoch, an ISO date string
\* its day number (days after the epoch, all positive).
DateTime(v) == IF v = Null THEN 0 ELSE v.day

RECURSIVE reduceLatest(_, _, _)
\* agreements.reduce((latest, current) => ..., null) from position i on, with
\* the accumulator latest: a position of the list, 0 for null.
reduceLatest(ags, i, latest) ==
    IF i > Len(ags) THEN latest
    ELSE IF latest = 0 \/ DateTime(ags[i].valid_to) > DateTime(ags[latest].valid_to)
         THEN reduceLatest(ags, i + 1, i)
         ELSE reduceLatest(ags, i + 1, latest)

\* The least position of a non-empty set of positions
First(positions) == CHOOSE i \in positions : \A j \in positions : i <= j

\* The positions of the meter points with the configured MPAN
pointsWithMpan(points) == {j \in 1..Len(points) : points[j].mpan = ConfigMpan}

\* properties.find(p => p.electricity_meter_points.some(e => e.mpan === mpan)):
\* the position of the first such property, 0 when find returns undefined
findProperty(properties) ==
    LET having == {i \in 1..Len(properties) :
                       pointsWithMpan(properties[i].electricity_meter_points) # {}}
    IN  IF having = {} THEN 0 ELSE First(having)

\* electricityPoints.find(e => e.mpan === mpan), on a list that has such a point
findPoint(points) == points[First(pointsWithMpan(points))]

\* tariffCode.split("-") and the two values cut from it; a tariff code is held
\* as the sequence of its "-"-separated segments.
productCodeOf(tariffParts) ==
    IF Len(tariffParts) < 3 THEN <<>> ELSE SubSeq(tariffParts, 3, Len(tariffParts) - 1)

regionLetterOf(tariffParts) == tariffParts[Len(tariffParts)]

\* getTariffInfo from the account response to the product request: the
\* agreements of the configured meter point, the position of the one chosen,
\* and the product code and region letter parsed from its tariff code.
resolveAgreement(r) ==
    IF ~r.ok THEN Throw("Network Error")
    ELSE LET properties == r.properties
             found == findProperty(properties)
         IN  IF found = 0 THEN Throw("MPAN not found in any property")
             ELSE LET electricityPoints == properties[found].electricity_meter_points
                      mpanPoint == findPoint(electricityPoints)
                      current == reduceLatest(mpanPoint.agreements, 1, 0)
                  IN  IF current = 0
                      THEN Throw("TypeError: currentAgreement is null")
                      ELSE LET tariffParts == mpanPoint.agreements[current].tariff_code
                           IN  Return([agreements |-> mpanPoint.agreements,
                                       current |-> current,
                                       productCode |-> productCodeOf(tariffParts),
                                       regionLetter |-> regionLetterOf(tariffParts)])

\* The unit rate in pounds with all its decimals
unitRateUnrounded(details) ==
    LET pounds == Div100(details.standard_unit_rate_inc_vat)
    IN  ToFixed(pounds, pounds.dp)

\* The unit rate in pounds as a 4-decimal string, from pence
unitRateOf(details) == ToFixed(Div100(details.standard_unit_rate_inc_vat), 4)

\* The standing charge in pounds as a 2-decimal string, from pence
standingChargeOf(details) == ToFixed(Div100(details.standing_charge_inc_vat), 2)

\* getTariffInfo falling back to some region of the table when the parsed one
\* has no entry
readProductAnyRegion(r, regionLetter) ==
    IF ~r.ok THEN Throw("Network Error")
    ELSE LET tariffs == r.single_register_electricity_tariffs
             key == IF <<"_", regionLetter>> \in DOMAIN tariffs THEN <<"_", regionLetter>>
                    ELSE CHOOSE other \in DOMAIN tariffs : TRUE
         IN  IF DOMAIN tariffs = {}
             THEN Throw("TypeError: regionTariff is undefined")
             ELSE LET details == Field(tariffs[key], "direct_debit_monthly")
                  IN  IF details = Undefined
                      THEN Throw("TypeError: details is undefined")
                      ELSE Return([name |-> r.display_name,
                                   unit_rate |-> unitRateOf(details),
                                   standing_charge |-> standingChargeOf(details)])

\* getTariffInfo from the product response to its return
readProduct(r, regionLetter) ==
    IF ~r.ok THEN Throw("Network Error")
    ELSE LET tariffs == r.single_register_electricity_tariffs
             key == <<"_", regionLetter>>
         IN  IF key \notin DOMAIN tariffs
             THEN Throw("TypeError: regionTariff is undefined")
             ELSE LET details == Field(tariffs[key], "direct_debit_monthly")
                  IN  IF details = Undefined
                      THEN Throw("TypeError: details is undefined")
                      ELSE Return([name |-> r.display_name,
                                   unit_rate |-> unitRateOf(details),
                                   standing_charge |-> standingChargeOf(details)])

RECURSIVE reduceSum(_, _, _)
\* results.reduce((sum, reading) => sum + reading.consumption, 0) from
\* position i on, with the accumulator sum.
reduceSum(readings, i, sum) ==
    IF i > Len(readings) THEN sum
    ELSE reduceSum(readings, i + 1, Add(sum, readings[i].consumption))

\* The return value of getYesterdayUsage and getMonthlyUsage.
usageAndCost(readings, trf) ==
    LET totalUsage == reduceSum(readings, 1, Dec(0, 0))
        totalCost == Mul(totalUsage, ParseFloat(trf.unit_rate))
    IN  [usage |-> totalUsage, cost |-> totalCost]

\* generateStatusMessage without its catch block
generateStatusMessageNoCatch(c) == c

\* generateStatusMessage's catch block: whatever was thrown inside becomes
\* the fixed error text.
generateStatusMessageCatch(c) == IF c.threw THEN Return(ErrorText) ELSE c

--------------------------------------------------------------------------
\* The values the provider may answer with.  focus names the part of the
\* report build whose requests draw from every body listed here: "live" the
\* telemetry steps, "tariff" the tariff resolutions, "usage" the
\* aggregations; there, every other request draws a representative body or a
\* failure.  Under focus "none" (several handlers in flight) a failure is
\* drawn for the token request and the consumption requests only.

SeqsUpTo(S, n) == UNION {[1..m -> S] : m \in 0..n}

\* A request that axios rejects: no connection, or a non-2xx status.
NetworkError == [ok |-> FALSE]

FailureUnless(focus, name) == IF focus # name THEN {NetworkError} ELSE {}

TokenBody == [ok |-> TRUE, data |-> [obtainKrakenToken |-> [token |-> "jwt-1"]]]

TokenResponses(focus) ==
    {NetworkError, TokenBody} \cup
    (IF focus = "live" THEN {[ok |-> TRUE, data |-> Null]} ELSE {})

DeviceBody(agreements) == [ok |-> TRUE, electricityAgreements |-> agreements]

OneAgreement(meters) == Arr(<< [meterPoint |-> [meters |-> meters]] >>)

OneMeter(smartDevices) == Arr(<< [smartDevices |-> smartDevices] >>)

GoodDeviceBody ==
    DeviceBody(OneAgreement(OneMeter(Arr(<< [deviceId |-> "device-1"] >>))))

AllDeviceBodies ==
    {GoodDeviceBody, DeviceBody(Null), DeviceBody(Arr(<<>>)),
     DeviceBody(OneAgreement(Null)), DeviceBody(OneAgreement(Arr(<<>>))),
     DeviceBody(OneAgreement(OneMeter(Null))),
     DeviceBody(OneAgreement(OneMeter(Arr(<<>>))))}

DeviceResponses(focus) ==
    FailureUnless(focus, "none") \cup
    (IF focus = "live" THEN AllDeviceBodies ELSE {GoodDeviceBody})

TelemetryBody(list) == [ok |-> TRUE, smartMeterTelemetry |-> list]

\* demand arrives as a decimal string
Demand(watts) == [k |-> "string", n |-> watts, dp |-> 0]

GoodTelemetryBody == TelemetryBody(Arr(<< [readAt |-> "t1", demand |-> Demand(350)] >>))

AllTelemetryBodies ==
    {GoodTelemetryBody,
     TelemetryBody(Null), TelemetryBody(Arr(<<>>)),
     TelemetryBody(Arr(<< [readAt |-> "t1", demand |-> Null] >>)),
     TelemetryBody(Arr(<< [readAt |-> "t1"] >>)),
     TelemetryBody(Arr(<< [readAt |-> "t1", demand |-> Demand(1200)],
                          [readAt |-> "t0", demand |-> Null] >>))}

TelemetryResponses(focus) ==
    FailureUnless(focus, "none") \cup
    (IF focus = "live" THEN AllTelemetryBodies ELSE {GoodTelemetryBody})

\* Interval consumptions in kWh: 0.123 and 5
ConsumptionSamples == {Dec(123, 3), Dec(5, 0)}

ConsumptionBody(values) ==
    [ok |-> TRUE, results |-> [i \in DOMAIN values |-> [consumption |-> values[i]]]]

AllConsumptionBodies ==
    {ConsumptionBody(vs) : vs \in SeqsUpTo(ConsumptionSamples, MaxReadings)}

ConsumptionResponses(focus) ==
    {NetworkError} \cup
    (IF focus = "usage" THEN AllConsumptionBodies
     ELSE {ConsumptionBody(<< Dec(5, 0), Dec(123, 3) >>)})

CodeVarA == << "E", "1R", "VAR", "22", "11", "01", "A" >>

CodeAgileB == << "E", "1R", "AGILE", "24", "10", "01", "B" >>

IsoDate(day) == [k |-> "string", day |-> day]

AgreementSamples ==
    [tariff_code : {CodeVarA, CodeAgileB},
     valid_to : {Null} \cup {IsoDate(d) : d \in 1..MaxDate}]

MeterPoint(mpan, agreements) == [mpan |-> mpan, agreements |-> agreements]

Property(points) == [electricity_meter_points |-> points]

AccountBody(properties) == [ok |-> TRUE, properties |-> properties]

GoodAccountBody ==
    AccountBody(<< Property(<< MeterPoint(ConfigMpan,
        << [tariff_code |-> CodeVarA, valid_to |-> Null] >>) >>) >>)

AllAccountBodies ==
    {AccountBody(<<>>)} \cup
    UNION {{AccountBody(<< Property(<< MeterPoint("mpan-2", ags) >>) >>),
            AccountBody(<< Property(<< MeterPoint(ConfigMpan, ags) >>) >>),
            AccountBody(<< Property(<< MeterPoint("mpan-2", <<>>) >>),
                           Property(<< MeterPoint("mpan-2", ags),
                                       MeterPoint(ConfigMpan, ags) >>) >>)}
           : ags \in SeqsUpTo(AgreementSamples, MaxAgreements)}

AccountResponses(focus) ==
    FailureUnless(focus, "none") \cup
    (IF focus = "tariff" THEN AllAccountBodies ELSE {GoodAccountBody})

\* Rates in pence: unit rates 25 and 24.1234, standing charge 27.35
RateSamples == {Dec(25, 0), Dec(241234, 4)}

Details(rate) ==
    [direct_debit_monthly |->
        [standard_unit_rate_inc_vat |-> rate, standing_charge_inc_vat |-> Dec(2735, 2)]]

ProductBody(regions, details) ==
    [ok |-> TRUE, display_name |-> "Flexible Octopus",
     single_register_electricity_tariffs |-> [key \in {<<"_", l>> : l \in regions} |-> details]]

GoodProductBody == ProductBody({"A", "B"}, Details(Dec(241234, 4)))

AllProductBodies ==
    {ProductBody(regions, Details(rate)) :
         regions \in {{"A", "B"}, {"B"}, {}}, rate \in RateSamples}
    \cup {ProductBody({"A", "B"}, [varying |-> Details(Dec(25, 0)).direct_debit_monthly])}

ProductResponses(focus) ==
    FailureUnless(focus, "none") \cup
    (IF focus = "tariff" THEN AllProductBodies
     ELSE IF focus = "usage" THEN {ProductBody({"A", "B"}, Details(rate)) : rate \in RateSamples}
     ELSE {GoodProductBody})

--------------------------------------------------------------------------
\* State

VARIABLES
    pc,          \* per handler: the request it awaits, or where it ended
    event,       \* per handler: the update it was invoked with
    liveUsage,   \* per handler: liveUsage of generateStatusMessage
    yesterday,   \* per handler: yesterday of generateStatusMessage
    monthly,     \* per handler: monthly of generateStatusMessage
    tariff,      \* per handler: tariff of generateStatusMessage
    results,     \* per handler: response.data.results of the aggregation in progress
    resolved,    \* per handler: what getTariffInfo holds while it awaits the product
    response,    \* per handler: the latest response received, and to which request
    calls,       \* per handler: the requests issued so far, each with its outcome
    outbox       \* the calls made on the messaging transport

vars ==
    << pc, event, liveUsage, yesterday, monthly, tariff, results, resolved,
       response, calls, outbox >>

Handlers == 1..MaxHandlers

At(stage, call) == [stage |-> stage, call |-> call]

Idle == At("idle", "none")

Returned == At("returned", "none")

Rejected == At("rejected", "none")

Init ==
    /\ pc = [h \in Handlers |-> Idle]
    /\ event = [h \in Handlers |-> Undefined]
    /\ liveUsage = [h \in Handlers |-> Undefined]
    /\ yesterday = [h \in Handlers |-> Undefined]
    /\ monthly = [h \in Handlers |-> Undefined]
    /\ tariff = [h \in Handlers |-> Undefined]
    /\ results = [h \in Handlers |-> Undefined]
    /\ resolved = [h \in Handlers |-> Undefined]
    /\ response = [h \in Handlers |-> Undefined]
    /\ calls = [h \in Handlers |-> <<>>]
    /\ outbox = {}

--------------------------------------------------------------------------
\* The dispatcher and the transport

\* The chat an update comes from: handler h serves an update of chat h, so
\* handlers in flight together come from different chats.
ChatOf(h) == h

\* The message of a chat that carries the button
MessageIds(chat) == {10 * chat + 1}

CallbackData == {"refresh", "noop"}

\* chatId kept in one variable shared by all handlers: the chat of the latest
\* update
sharedChatId(h) ==
    LET entered == {g \in DOMAIN event : event[g] # [k |-> "undefined"]}
    IN  event[CHOOSE g \in entered : \A other \in entered : other <= g].chat

\* const chatId = msg.chat.id / callbackQuery.message.chat.id
chatIdOf(h) == event[h].chat

\* A reply markup without the button
noKeyboard == [inline_keyboard |-> <<>>]

\* const keyboard = { inline_keyboard: [[{ text, callback_data }]] }
keyboard == RefreshKeyboard

\* callbackQuery.data === "refresh"
isRefresh(data) == data = "refresh"

\* bot.sendMessage(chatId, message, ...) of the /start handler and
\* bot.editMessageText(message, ...) of the callback handler
transportCall(h, message) ==
    IF event[h].type = "text"
    THEN [method |-> "sendMessage", chat_id |-> chatIdOf(h), text |-> message,
          parse_mode |-> "Markdown", reply_markup |-> keyboard, by |-> h]
    ELSE [method |-> "editMessageText", chat_id |-> chatIdOf(h),
          message_id |-> event[h].message_id, text |-> message,
          parse_mode |-> "Markdown", reply_markup |-> keyboard, by |-> h]

Pending(place) == [stage |-> place.stage, call |-> place.call, outcome |-> "pending"]

\* The log with its outstanding request settled
Settle(log, outcome) == [log EXCEPT ![Len(log)].outcome = outcome]

OutcomeOf(c) == IF c.threw THEN c.message ELSE "ok"

\* The handler's task suspends on the next request.
Await(h, outcome, place) ==
    /\ pc' = [pc EXCEPT ![h] = place]
    /\ calls' = [calls EXCEPT ![h] = Append(Settle(@, outcome), Pending(place))]
    /\ outbox' = outbox

\* The try block of generateStatusMessage completes with c: the catch block
\* runs, and the handler resumes with the value returned and calls the
\* transport; an error that left generateStatusMessage rejects the handler.
Finish(h, outcome, c) ==
    LET g == generateStatusMessageCatch(c)
    IN  /\ calls' = [calls EXCEPT ![h] = Settle(@, outcome)]
        /\ IF g.threw
           THEN /\ pc' = [pc EXCEPT ![h] = Rejected]
                /\ outbox' = outbox
           ELSE /\ pc' = [pc EXCEPT ![h] = Returned]
                /\ outbox' = outbox \cup {transportCall(h, g.value)}

\* generateStatusMessage is entered: getLiveUsage, getKrakenToken, and the
\* token request is issued.
Enter(h) ==
    /\ pc' = [pc EXCEPT ![h] = At("live", "token")]
    /\ calls' = [calls EXCEPT ![h] = << Pending(At("live", "token")) >>]
    /\ outbox' = outbox

\* bot.onText(/\/start/, ...)
OnText(h) ==
    /\ pc[h] = Idle
    /\ event' = [event EXCEPT ![h] = [type |-> "text", chat |-> ChatOf(h)]]
    /\ Enter(h)
    /\ UNCHANGED << liveUsage, yesterday, monthly, tariff, results, resolved, response >>

\* bot.on("callback_query", ...)
OnCallbackQuery(h, messageId, data) ==
    /\ pc[h] = Idle
    /\ event' = [event EXCEPT ![h] = [type |-> "callback_query", chat |-> ChatOf(h),
                                      message_id |-> messageId, data |-> data]]
    /\ IF isRefresh(data)
       THEN Enter(h)
       ELSE /\ pc' = [pc EXCEPT ![h] = Returned]
            /\ UNCHANGED << calls, outbox >>
    /\ UNCHANGED << liveUsage, yesterday, monthly, tariff, results, resolved, response >>

--------------------------------------------------------------------------
\* The report build, one action per response

\* The 30-day aggregation called before yesterday's
followingStageSwapped(stage) ==
    CASE stage = "live" -> At("monthly", "consumption")
      [] stage = "monthly" -> At("yesterday", "consumption")
      [] stage = "yesterday" -> At("display", "account")

\* The request generateStatusMessage reaches once a stage has returned
followingStage(stage) ==
    CASE stage = "live" -> At("yesterday", "consumption")
      [] stage = "yesterday" -> At("monthly", "consumption")
      [] stage = "monthly" -> At("display", "account")

Received(h, r) == response' = [response EXCEPT ![h] = [to |-> pc[h], body |-> r]]

\* getLiveUsage completes with c (after its catch block).
LiveUsageDone(h, outcome, c) ==
    IF c.threw
    THEN Finish(h, outcome, c) /\ UNCHANGED liveUsage
    ELSE /\ liveUsage' = [liveUsage EXCEPT ![h] = c.value]
         /\ Await(h, outcome, followingStage("live"))

TokenResponse(h, r) ==
    /\ pc[h] = At("live", "token")
    /\ Received(h, r)
    /\ LET c == getKrakenToken(r)
       IN  IF c.threw
           THEN LiveUsageDone(h, OutcomeOf(c), getLiveUsageCatch(c))
           ELSE Await(h, "ok", At("live", "device")) /\ UNCHANGED liveUsage
    /\ UNCHANGED << event, yesterday, monthly, tariff, results, resolved >>

DeviceResponse(h, r) ==
    /\ pc[h] = At("live", "device")
    /\ Received(h, r)
    /\ LET c == getMeterGuid(r)
       IN  IF c.threw
           THEN LiveUsageDone(h, OutcomeOf(c), getLiveUsageCatch(c))
           ELSE Await(h, "ok", At("live", "telemetry")) /\ UNCHANGED liveUsage
    /\ UNCHANGED << event, yesterday, monthly, tariff, results, resolved >>

TelemetryResponse(h, r) ==
    /\ pc[h] = At("live", "telemetry")
    /\ Received(h, r)
    /\ LET c == readTelemetry(r)
       IN  LiveUsageDone(h, OutcomeOf(c), getLiveUsageCatch(c))
    /\ UNCHANGED << event, yesterday, monthly, tariff, results, resolved >>

\* A catch block that issues the failed request again
retryRequest(h, outcome, c) == Await(h, outcome, pc[h])

\* The catch blocks of getYesterdayUsage, getMonthlyUsage and getTariffInfo:
\* the error is logged and thrown again, up to generateStatusMessage.
rethrow(h, outcome, c) == Finish(h, outcome, c)

\* A frame that has returned or thrown holds nothing.
Drop(local, h) == [local EXCEPT ![h] = Undefined]

ConsumptionResponse(h, r) ==
    /\ pc[h].call = "consumption"
    /\ Received(h, r)
    /\ IF ~r.ok
       THEN rethrow(h, "Network Error", Throw("Network Error")) /\ UNCHANGED results
       ELSE /\ results' = [results EXCEPT ![h] = r.results]
            /\ Await(h, "ok", At(pc[h].stage, "account"))
    /\ UNCHANGED << event, liveUsage, yesterday, monthly, tariff, resolved >>

AccountResponse(h, r) ==
    /\ pc[h].call = "account"
    /\ Received(h, r)
    /\ LET c == resolveAgreement(r)
       IN  IF c.threw
           THEN /\ rethrow(h, OutcomeOf(c), c)
                /\ results' = Drop(results, h)
                /\ UNCHANGED resolved
           ELSE /\ resolved' = [resolved EXCEPT ![h] = c.value]
                /\ Await(h, "ok", At(pc[h].stage, "product"))
                /\ UNCHANGED results
    /\ UNCHANGED << event, liveUsage, yesterday, monthly, tariff >>

ProductResponse(h, r) ==
    /\ pc[h].call = "product"
    /\ Received(h, r)
    /\ LET c == readProduct(r, resolved[h].regionLetter)
       IN  IF c.threw
           THEN rethrow(h, OutcomeOf(c), c) /\ UNCHANGED << yesterday, monthly, tariff >>
           ELSE CASE pc[h].stage = "yesterday" ->
                       /\ yesterday' = [yesterday EXCEPT ![h] = usageAndCost(results[h], c.value)]
                       /\ Await(h, "ok", followingStage("yesterday"))
                       /\ UNCHANGED << monthly, tariff >>
                  [] pc[h].stage = "monthly" ->
                       /\ monthly' = [monthly EXCEPT ![h] = usageAndCost(results[h], c.value)]
                       /\ Await(h, "ok", followingStage("monthly"))
                       /\ UNCHANGED << yesterday, tariff >>
                  [] pc[h].stage = "display" ->
                       /\ tariff' = [tariff EXCEPT ![h] = c.value]
                       /\ Finish(h, "ok", Return(StatusText(liveUsage[h], yesterday[h],
                                                            monthly[h], c.value)))
                       /\ UNCHANGED << yesterday, monthly >>
    /\ results' = Drop(results, h)
    /\ resolved' = Drop(resolved, h)
    /\ UNCHANGED << event, liveUsage >>

\* An update arrives and its handler runs to its first request.
Dispatch(h) ==
    \/ OnText(h)
    \/ \E m \in MessageIds(ChatOf(h)), d \in CallbackData : OnCallbackQuery(h, m, d)

\* A response arrives at handler h; focus names the stage whose responses are
\* drawn from the full sets.
Resume(h, focus) ==
    \/ pc[h] = At("live", "token") /\ \E r \in TokenResponses(focus) : TokenResponse(h, r)
    \/ pc[h] = At("live", "device") /\ \E r \in DeviceResponses(focus) : DeviceResponse(h, r)
    \/ pc[h] = At("live", "telemetry") /\ \E r \in TelemetryResponses(focus) : TelemetryResponse(h, r)
    \/ pc[h].call = "consumption" /\ \E r \in ConsumptionResponses(focus) : ConsumptionResponse(h, r)
    \/ pc[h].call = "account" /\ \E r \in AccountResponses(focus) : AccountResponse(h, r)
    \/ pc[h].call = "product" /\ \E r \in ProductResponses(focus) : ProductResponse(h, r)

\* Updates of several chats handled concurrently.
Next == \E h \in Handlers : Dispatch(h) \/ Resume(h, "none")

Spec == Init /\ [][Next]_vars

\* One report build, with every response the telemetry steps can get.
NextLive == Dispatch(1) \/ Resume(1, "live")

SpecLive == Init /\ [][NextLive]_vars

\* One report build, with every response a tariff resolution can get.
NextTariff == Dispatch(1) \/ Resume(1, "tariff")

SpecTariff == Init /\ [][NextTariff]_vars

\* One report build, with every response an aggregation can get.
NextUsage == Dispatch(1) \/ Resume(1, "usage")

SpecUsage == Init /\ [][NextUsage]_vars

--------------------------------------------------------------------------
\* Properties

CriticalStages == {"yesterday", "monthly", "display"}

Failed(entry) == entry.outcome \notin {"ok", "pending"}

MessagesBy(h) == {m \in outbox : m.by = h}

\* Some request of a tariff resolution or of an aggregation of h has failed.
CriticalFailure(h) ==
    \E i \in 1..Len(calls[h]) : calls[h][i].stage \in CriticalStages /\ Failed(calls[h][i])

\* Some request of the telemetry steps of h has failed.
LiveFailure(h) ==
    \E i \in 1..Len(calls[h]) : calls[h][i].stage = "live" /\ Failed(calls[h][i])

IsStatusText(text) == text.body = "Octopus Energy Status"

\* C1: generateStatusMessage never throws: no handler is ever rejected by an
\* error leaving it, every text delivered is the error text or a status
\* report, and once a request of a tariff resolution or of an aggregation
\* has failed the handler has returned and the one text it delivered is the
\* fixed error text.
C1_ReportNeverThrows ==
    \A h \in Handlers :
        /\ pc[h] # Rejected
        /\ \A m \in MessagesBy(h) : m.text = ErrorText \/ IsStatusText(m.text)
        /\ CriticalFailure(h) =>
               /\ pc[h] = Returned
               /\ Cardinality(MessagesBy(h)) = 1
               /\ \A m \in MessagesBy(h) : m.text = ErrorText

C1_Witness ==
    \E h \in Handlers :
        /\ \E i \in 1..Len(calls[h]) :
               /\ calls[h][i] = [stage |-> "monthly", call |-> "account",
                                 outcome |-> "MPAN not found in any property"]
        /\ \E m \in MessagesBy(h) : m.text = ErrorText

\* C2: getLiveUsage never fails outward: after a failed request of the
\* telemetry steps the live usage is the number 0 and the build goes on with
\* yesterday's consumption request, and if every later request succeeds the
\* text delivered is the status report showing 0W.
C2_LiveUsageSwallowsErrors ==
    \A h \in Handlers :
        LiveFailure(h) =>
            /\ liveUsage[h] = Dec(0, 0)
            /\ \E i \in 2..Len(calls[h]) :
                   /\ Failed(calls[h][i - 1])
                   /\ calls[h][i - 1].stage = "live"
                   /\ calls[h][i].stage = "yesterday"
                   /\ calls[h][i].call = "consumption"
            /\ (pc[h] = Returned /\ ~CriticalFailure(h)) =>
                   /\ Cardinality(MessagesBy(h)) = 1
                   /\ \A m \in MessagesBy(h) :
                          /\ IsStatusText(m.text)
                          /\ m.text.current = [k |-> "string", n |-> 0, dp |-> 0]

C2_Witness ==
    \E h \in Handlers :
        /\ calls[h] # <<>>
        /\ \E i \in 1..Len(calls[h]) : calls[h][i].outcome = "No active meters found"
        /\ pc[h] = Returned
        /\ \E m \in MessagesBy(h) :
               IsStatusText(m.text) /\ m.text.current = [k |-> "string", n |-> 0, dp |-> 0]

\* The first reading of the telemetry response h received last has no usable
\* demand: the field is null or missing.
NoDemand(h) ==
    /\ response[h] # Undefined
    /\ response[h].to = At("live", "telemetry")
    /\ response[h].body.ok
    /\ ~Falsy(response[h].body.smartMeterTelemetry)
    /\ Len(response[h].body.smartMeterTelemetry.items) > 0
    /\ Field(response[h].body.smartMeterTelemetry.items[1], "demand") \in {Null, Undefined}

\* C3: a null or missing demand in the first telemetry reading gives live
\* usage 0; the value getLiveUsage returns is always a number, never null or
\* NaN, and no report shows "NaN" or "null" as the current usage.
C3_LiveUsageIsNumber ==
    \A h \in Handlers :
        /\ liveUsage[h] = Undefined \/ liveUsage[h].k = "number"
        /\ NoDemand(h) => liveUsage[h] = Dec(0, 0)
        /\ \A m \in MessagesBy(h) :
               IsStatusText(m.text) => "text" \notin DOMAIN m.text.current

\* The day a valid_to stands for when null means open-ended: later than
\* every date.
EndDay(v) == IF v = Null THEN MaxDate + 1 ELSE v.day

\* C4: the agreement getTariffInfo selects has the maximum valid_to of the
\* meter point's agreements, an open-ended (null) valid_to being later than
\* any date, and is the first in input order among those with the maximum.
C4_LatestAgreementSelected ==
    \A h \in Handlers :
        resolved[h] # Undefined =>
            LET ags == resolved[h].agreements
                cur == resolved[h].current
            IN  /\ cur \in 1..Len(ags)
                /\ \A i \in 1..Len(ags) :
                       /\ EndDay(ags[i].valid_to) <= EndDay(ags[cur].valid_to)
                       /\ EndDay(ags[i].valid_to) = EndDay(ags[cur].valid_to) => cur <= i

\* No meter point of any property of the account has the configured MPAN.
NoMatchingMpan(body) ==
    \A i \in 1..Len(body.properties) :
        \A j \in 1..Len(body.properties[i].electricity_meter_points) :
            body.properties[i].electricity_meter_points[j].mpan # ConfigMpan

\* The meter point with the configured MPAN, of the first property that has
\* one, has no agreements.
MatchingPointEmpty(body) ==
    \E i \in 1..Len(body.properties) :
        \E j \in 1..Len(body.properties[i].electricity_meter_points) :
            LET points(a) == body.properties[a].electricity_meter_points
            IN  /\ points(i)[j].mpan = ConfigMpan
                /\ points(i)[j].agreements = <<>>
                /\ \A b \in 1..(j - 1) : points(i)[b].mpan # ConfigMpan
                /\ \A a \in 1..(i - 1) : \A b \in 1..Len(points(a)) :
                       points(a)[b].mpan # ConfigMpan

\* Handler h ends in this step with the error text, having issued no further
\* request and without a TariffRate having reached an aggregation or the
\* report.
AbortsWithErrorText(h) ==
    /\ pc'[h] = Returned
    /\ Len(calls'[h]) = Len(calls[h])
    /\ Failed(calls'[h][Len(calls'[h])])
    /\ outbox' \ outbox = {m \in outbox' : m.by = h /\ m.text = ErrorText}
    /\ outbox' # outbox
    /\ yesterday'[h] = yesterday[h]
    /\ monthly'[h] = monthly[h]
    /\ tariff'[h] = tariff[h]

\* C5: a tariff resolution fails, and returns no TariffRate, when no
\* property has a meter point with the configured MPAN, when the matching
\* meter point has no agreements, and when the product's tariff table has no
\* entry for the parsed region letter; in the first two cases no product
\* request is issued.
C5_TariffResolutionFails ==
    [][\A h \in Handlers :
          /\ (/\ pc[h].call = "account"
              /\ pc'[h] # pc[h]
              /\ response'[h].body.ok
              /\ NoMatchingMpan(response'[h].body) \/ MatchingPointEmpty(response'[h].body))
             => AbortsWithErrorText(h)
          /\ (/\ pc[h].call = "product"
              /\ pc'[h] # pc[h]
              /\ response'[h].body.ok
              /\ <<"_", resolved[h].regionLetter>> \notin
                     DOMAIN response'[h].body.single_register_electricity_tariffs)
             => AbortsWithErrorText(h)]_vars

C5_Witness ==
    \E h \in Handlers :
        /\ pc[h] = Returned
        /\ calls[h] # <<>>
        /\ calls[h][Len(calls[h])] = [stage |-> "yesterday", call |-> "account",
                                      outcome |-> "TypeError: currentAgreement is null"]
        /\ MatchingPointEmpty(response[h].body)
        /\ \E m \in MessagesBy(h) : m.text = ErrorText

\* The order in which one report build issues its requests.
CallOrder ==
    << At("live", "token"), At("live", "device"), At("live", "telemetry"),
       At("yesterday", "consumption"), At("yesterday", "account"), At("yesterday", "product"),
       At("monthly", "consumption"), At("monthly", "account"), At("monthly", "product"),
       At("display", "account"), At("display", "product") >>

Position(entry) ==
    CHOOSE i \in 1..Len(CallOrder) : CallOrder[i] = At(entry.stage, entry.call)

\* C6: one report build issues its requests strictly one after another in
\* the fixed order token, device, telemetry, then yesterday's aggregation,
\* then the 30-day aggregation, then the display tariff resolution: every
\* request but the latest has completed, the first is the token request, and
\* each later one is the successor of the one before it, or yesterday's
\* consumption request after a failed telemetry step.
C6_SequentialFixedOrder ==
    \A h \in Handlers :
        LET log == calls[h]
        IN  /\ \A i \in 1..Len(log) : At(log[i].stage, log[i].call) \in
                   {CallOrder[n] : n \in 1..Len(CallOrder)}
            /\ \A i \in 1..(Len(log) - 1) : log[i].outcome # "pending"
            /\ Cardinality({i \in 1..Len(log) : log[i].outcome = "pending"}) <= 1
            /\ log # <<>> => Position(log[1]) = 1
            /\ \A i \in 2..Len(log) :
                   \/ Position(log[i]) = Position(log[i - 1]) + 1
                   \/ /\ log[i - 1].stage = "live"
                      /\ Failed(log[i - 1])
                      /\ Position(log[i]) = 4

C6_Witness ==
    \E h \in Handlers :
        /\ Len(calls[h]) = Len(CallOrder)
        /\ \A i \in 1..Len(CallOrder) : Position(calls[h][i]) = i
        /\ pc[h] = Returned

\* The text handler h delivers, from what h itself received: the error text
\* after a failed request of an aggregation or a tariff resolution,
\* otherwise the report of its own four results.
OwnText(h) ==
    IF CriticalFailure(h) THEN ErrorText
    ELSE StatusText(liveUsage[h], yesterday[h], monthly[h], tariff[h])

\* C7: handlers in flight together do not cross-talk: each transport call
\* was made by a handler that has returned, goes to the chat of that
\* handler's update (a /start sends a new message, a refresh edits the
\* message whose id came with the callback), carries the text built from
\* that handler's own results, and is the only call of that handler.
C7_NoCrossTalk ==
    /\ \A m \in outbox :
           /\ pc[m.by] = Returned
           /\ m.chat_id = ChatOf(m.by)
           /\ event[m.by].type = "text" => m.method = "sendMessage"
           /\ event[m.by].type = "callback_query" =>
                  /\ m.method = "editMessageText"
                  /\ m.message_id = event[m.by].message_id
                  /\ m.message_id \in MessageIds(ChatOf(m.by))
           /\ m.text = OwnText(m.by)
    /\ \A h \in Handlers : Cardinality(MessagesBy(h)) <= 1

C7_Witness ==
    \E m \in outbox : \E h \in Handlers :
        /\ m.by # h
        /\ m.method = "sendMessage"
        /\ m.text = ErrorText
        /\ event[h] # Undefined
        /\ event[h].type = "callback_query"
        /\ pc[h] = At("display", "product")
        /\ liveUsage[h] = Dec(350, 0)

\* C8: every message sent or edited carries the one "Refresh" button with
\* payload "refresh", the error text included, and a callback with another
\* payload builds no report and makes no transport call.
C8_RefreshControlAlways ==
    /\ \A m \in outbox :
           m.reply_markup =
               [inline_keyboard |-> << << [text |-> "Refresh", callback_data |-> "refresh"] >> >>]
    /\ \A h \in Handlers :
           (event[h] # Undefined /\ event[h].type = "callback_query" /\ event[h].data # "refresh")
               => /\ pc[h] = Returned
                  /\ calls[h] = <<>>
                  /\ MessagesBy(h) = {}
    /\ \A h \in Handlers :
           (pc[h] = Returned /\ calls[h] # <<>>) => MessagesBy(h) # {}

C8_Witness ==
    /\ \E m \in outbox : m.method = "editMessageText" /\ m.text = ErrorText
    /\ \E h \in Handlers :
           /\ pc[h] = Returned
           /\ event[h].type = "callback_query"
           /\ event[h].data = "noop"

\* An aggregation of h returns in this step.
AggregationReturns(h) ==
    /\ pc[h].call = "product"
    /\ pc[h].stage \in {"yesterday", "monthly"}
    /\ pc'[h] = followingStage(pc[h].stage)

\* The window an aggregation of h returns in this step.
WindowReturned(h) == IF pc[h].stage = "yesterday" THEN yesterday'[h] ELSE monthly'[h]

RECURSIVE SumFromEnd(_, _)
\* The sum of the consumption fields of the first n readings, last first.
SumFromEnd(readings, n) ==
    IF n = 0 THEN Dec(0, 0)
    ELSE Add(readings[n].consumption, SumFromEnd(readings, n - 1))

\* The unit rate in pence of the product response received by h in this
\* step, for the region the resolution asked for.
PenceRate(h) ==
    response'[h].body.single_register_electricity_tariffs[<<"_", resolved[h].regionLetter>>]
        .direct_debit_monthly.standard_unit_rate_inc_vat

\* A rate in pence as a whole number of 1/10000 pound, halves rounded up.
TenThousandths(pence) ==
    IF pence.dp <= 2 THEN pence.n * Pow10(2 - pence.dp)
    ELSE (pence.n + Pow10(pence.dp - 2) \div 2) \div Pow10(pence.dp - 2)

\* C9 as stated: the cost of a window is the usage in its 2-decimal display
\* form times the unit rate in its 4-decimal display form.
C9_CostFromDisplayedUsage ==
    [][\A h \in Handlers :
          AggregationReturns(h) =>
              LET w == WindowReturned(h)
                  shown == ToFixed(w.usage, 2)
              IN  w.cost = Dec(shown.n * TenThousandths(PenceRate(h)), 2 + 4)]_vars

\* C9: the usage of a window is the sum of the consumption fields of the
\* returned readings, in any order, and 0 with cost 0 for no readings; the
\* cost is that unrounded usage times the unit rate in its 4-decimal display
\* form.
C9_CostFromSummedUsage ==
    [][\A h \in Handlers :
          AggregationReturns(h) =>
              LET w == WindowReturned(h)
              IN  /\ w.usage = SumFromEnd(results[h], Len(results[h]))
                  /\ w.cost = Dec(w.usage.n * TenThousandths(PenceRate(h)), w.usage.dp + 4)
                  /\ results[h] = <<>> => w.usage = Dec(0, 0) /\ w.cost = Dec(0, 0)]_vars

C9_Witness ==
    \E h \in Handlers :
        /\ yesterday[h] # Undefined
        /\ yesterday[h].usage = Dec(246, 3)
        /\ yesterday[h].cost = Dec(246 * 2412, 7)
        /\ monthly[h] # Undefined
        /\ monthly[h].usage = Dec(10, 0)
        /\ monthly[h].cost = Dec(250, 2)

\* C10: no request of a report build is issued twice, and a failed request
\* of an aggregation or of a tariff resolution is the last request of its
\* build, whose handler has returned.
C10_FailFastNoRetry ==
    \A h \in Handlers :
        /\ \A i \in 1..Len(calls[h]) : \A j \in 1..Len(calls[h]) :
               (calls[h][i].stage = calls[h][j].stage /\ calls[h][i].call = calls[h][j].call)
                   => i = j
        /\ \A i \in 1..Len(calls[h]) :
               (calls[h][i].stage \in CriticalStages /\ Failed(calls[h][i]))
                   => i = Len(calls[h]) /\ pc[h] = Returned

C10_Witness ==
    \E h \in Handlers :
        /\ pc[h] = Returned
        /\ Len(calls[h]) = 6
        /\ calls[h][6].stage = "yesterday"
        /\ calls[h][6].call = "product"
        /\ Failed(calls[h][6])
        /\ monthly[h] = Undefined

====
